---------------------------- MODULE Spec2Model ----------------------------
(***************************************************************************)
(* Model of wrapper/console/TUI.py (class ExegolTUI): the docker pull      *)
(* progress tracker (downloadDockerLayer), the build stream consumer       *)
(* (buildDockerImage) and the interactive selectors (selectFromTable,      *)
(* selectFromList).                                                        *)
(*                                                                         *)
(* Python values are modelled as follows.                                  *)
(*  - A str that the code only compares, searches or rewrites at the       *)
(*    granularity of the vocabulary phrases is a sequence of tokens, each  *)
(*    vocabulary phrase being one token: s == "p" is s = <<p>>, "p" in s   *)
(*    is Contains(s, p), s.replace("p", '') is Remove(s, p).               *)
(*  - A dict is a function; d.get(k, v) is Get(d, k, v).                   *)
(*  - None, as a layer id, is the string "None".                           *)
(***************************************************************************)
EXTENDS Integers, Sequences, FiniteSets, TLC

(***************************************************************************)
(* Bounds of the model.                                                    *)
(***************************************************************************)
\* Largest number of elements a stream yields before it closes.
MaxStream == 4

(***************************************************************************)
(* Vocabulary of TUI.py.                                                   *)
(***************************************************************************)
PullingFsLayer == "Pulling fs layer"
PullingFrom == "Pulling from "
DownloadComplete == "Download complete"
PullComplete == "Pull complete"
Downloading == "Downloading"
Extracting == "Extracting"
ImageUpToDate == "Image is up to date"
DownloadedNewer == "Status: Downloaded newer image for"
\* line.get("progressDetail", {}).get("total", 100)
DefaultTotal == 100
\* line.get("progressDetail", {}).get("current", 100)
DefaultCurrent == 100

\* "p" in s
Contains(s, p) == \E i \in 1..Len(s) : s[i] = p
\* s.replace("p", '')
Remove(s, p) == SelectSeq(s, LAMBDA tok : tok # p)
\* d.get(k, default)
Get(d, k, default) == IF k \in DOMAIN d THEN d[k] ELSE default
\* {} as a dict
EmptyDict == [k \in {} |-> 0]
\* d[k] = v
Put(d, k, v) == [x \in DOMAIN d \cup {k} |-> IF x = k THEN v ELSE d[x]]
\* d.pop(k)
Pop(d, k) == [x \in DOMAIN d \ {k} |-> d[x]]

(***************************************************************************)
(* The inputs: the elements a docker SDK stream can yield.  A pull event   *)
(* is {status, id?, progressDetail?}, a build line is {stream}.            *)
(***************************************************************************)
LayerIds == {"a", "b"}
LayerEvents ==
    {[status |-> <<s>>, id |-> i] :
        s \in {PullingFsLayer, DownloadComplete, PullComplete}, i \in LayerIds}
    \cup {[status |-> <<PullComplete>>]}
\* progress events: with progressDetail {current, total}, without
\* progressDetail, and with a progressDetail that has no total
ProgressEvents ==
    {[status |-> <<s>>, id |-> "a", progressDetail |-> [current |-> 1, total |-> 2]] :
        s \in {Downloading, Extracting}}
    \cup {[status |-> <<s>>, id |-> "a"] : s \in {Downloading, Extracting}}
    \cup {[status |-> <<s>>, id |-> "b", progressDetail |-> [current |-> 2]] :
             s \in {Downloading, Extracting}}
OtherEvents ==
    { [status |-> <<PullingFrom, "library/ubuntu">>],
      [status |-> <<"Status: ", ImageUpToDate, " for ubuntu:latest">>],
      [status |-> <<DownloadedNewer, " ubuntu:latest">>],
      [status |-> <<PullingFrom, ImageUpToDate>>, id |-> "latest"],
      [status |-> <<Downloading, " layer">>, id |-> "a"],
      [id |-> "a"] }
BuildLines ==
    { [stream |-> <<"Step", " 1/2", ": FROM ", "ubuntu", "\n">>],
      [stream |-> <<"Step", " 2/2", " : RUN x", "\n">>],
      [stream |-> <<" ", "--->", " 0123456789ab", "\n">>],
      [stream |-> <<"apt output", "\n">>] }
Lines == LayerEvents \cup ProgressEvents \cup OtherEvents \cup BuildLines

(***************************************************************************)
(* State.                                                                  *)
(***************************************************************************)
VARIABLES
    entry,                \* the ExegolTUI function the caller invoked
    pc,                   \* where control is: "call", "build", "pull", "done"
    closed,               \* the stream has raised StopIteration
    pulled,               \* number of elements pulled from the stream so far
    line,                 \* loop variable: the element pulled last
    quick_exit,           \* downloadDockerLayer's parameter
    layers,               \* downloadDockerLayer locals (TUI.py 22-26)
    layers_downloaded,
    layers_extracted,
    downloading,
    extracting,
    tasks,                \* progress._tasks: task id -> Task
    task_index,           \* progress._task_index: the next task id
    task_layers_download, \* id of the download aggregate row
    task_layers_extract,  \* id of the extract aggregate row
    live,                 \* the progress display is live (inside the with block)
    log,                  \* what the last step logged: <<logger method, function>>
    invocations,          \* number of downloadDockerLayer calls so far
    obs_discovered,       \* history of the current invocation: ids of the
    obs_download_finished,\*   'Pulling fs layer', 'Download complete',
    obs_extract_finished, \*   'Pull complete' events pulled so far, and
    obs_extract_activity, \*   whether an 'Extracting'/'Pull complete' was pulled,
    obs_operation_complete, \* whether an OperationComplete event was pulled,
    obs_repeated          \*   whether the last line equals the one before it

controlVars == <<entry, pc, closed, pulled, line, quick_exit, invocations>>
localVars == <<layers, layers_downloaded, layers_extracted, downloading, extracting>>
progressVars == <<tasks, task_index, task_layers_download, task_layers_extract, live>>
obsVars == <<obs_discovered, obs_download_finished, obs_extract_finished,
             obs_extract_activity, obs_operation_complete, obs_repeated>>
streamVars == <<controlVars, localVars, progressVars, log, obsVars>>

(***************************************************************************)
(* ExegolProgress (rich.progress.Progress plus getTask): the operations    *)
(* TUI.py calls, on the task table.                                        *)
(***************************************************************************)
\* progress.add_task(description, total=total, start=start): the new table
AddTask(ts, id, description, total, start) ==
    Put(ts, id, [description |-> description, total |-> total,
                 completed |-> 0, started |-> start])
\* progress.update(task, total=n)
UpdateTotal(ts, id, n) == [ts EXCEPT ![id].total = n]
\* progress.update(task, completed=n)
UpdateCompleted(ts, id, n) == [ts EXCEPT ![id].completed = n]
\* progress.getTask(task)
GetTask(ts, id) == ts[id]
\* progress.getTask(task).description = d
SetDescription(ts, id, d) == [ts EXCEPT ![id] = [GetTask(ts, id) EXCEPT !.description = d]]
\* progress.start_task(task)
StartTask(ts, id) == [ts EXCEPT ![id].started = TRUE]
\* progress.remove_task(task)
RemoveTask(ts, id) == Pop(ts, id)

(***************************************************************************)
(* downloadDockerLayer: the branches of the loop body (TUI.py 43-90).      *)
(* Each is an action on the locals and the task table for one line.        *)
(***************************************************************************)
\* faulty variant of OnPullingFsLayer: the totals count the events, not the set
OnPullingFsLayer_CountsEvents(layer_id) ==
    /\ layers' = layers \cup {layer_id}
    /\ tasks' = UpdateTotal(
                    UpdateTotal(tasks, task_layers_download,
                                tasks[task_layers_download].total + 1),
                    task_layers_extract, tasks[task_layers_extract].total + 1)
    /\ UNCHANGED <<layers_downloaded, layers_extracted, downloading, extracting,
                   task_index>>

\* status == "Pulling fs layer" (45-48)
OnPullingFsLayer(layer_id) ==
    /\ layers' = layers \cup {layer_id}
    /\ tasks' = UpdateTotal(
                    UpdateTotal(tasks, task_layers_download, Cardinality(layers')),
                    task_layers_extract, Cardinality(layers'))
    /\ UNCHANGED <<layers_downloaded, layers_extracted, downloading, extracting,
                   task_index>>

\* "Pulling from " in status (49-53)
OnPullingFrom(l, status) ==
    LET name == Remove(status, PullingFrom) \o <<":", Get(l, "id", "latest")>>
    IN  /\ tasks' = SetDescription(
                        SetDescription(tasks, task_layers_download,
                                       <<"[bold red]Downloading ">> \o name),
                        task_layers_extract, <<"[bold gold1]Extracting ">> \o name)
        /\ UNCHANGED <<localVars, task_index>>

\* faulty variant of OnComplete: the layer pool is not switched on "Pull complete"
OnComplete_OnePool(status, layer_id) ==
    LET pull == status = <<PullComplete>>
        task_pool == IF pull THEN extracting ELSE downloading
        present == layer_id \in DOMAIN task_pool
        removed == IF present THEN RemoveTask(tasks, task_pool[layer_id]) ELSE tasks
    IN  /\ layers_downloaded' = layers_downloaded \cup {layer_id}
        /\ layers_extracted' = layers_extracted
        /\ downloading' =
               IF ~pull /\ present THEN Pop(downloading, layer_id) ELSE downloading
        /\ extracting' =
               IF pull /\ present THEN Pop(extracting, layer_id) ELSE extracting
        /\ tasks' = UpdateCompleted(
                        UpdateCompleted(removed, task_layers_download,
                                        Cardinality(layers_downloaded')),
                        task_layers_extract, Cardinality(layers_extracted'))
        /\ UNCHANGED <<layers, task_index>>

\* faulty variant of OnComplete: the finished layer's row and pool entry are kept
OnComplete_KeepsRow(status, layer_id) ==
    LET pull == status = <<PullComplete>>
    IN  /\ layers_downloaded' =
               IF pull THEN layers_downloaded ELSE layers_downloaded \cup {layer_id}
        /\ layers_extracted' =
               IF pull THEN layers_extracted \cup {layer_id} ELSE layers_extracted
        /\ tasks' = UpdateCompleted(
                        UpdateCompleted(tasks, task_layers_download,
                                        Cardinality(layers_downloaded')),
                        task_layers_extract, Cardinality(layers_extracted'))
        /\ UNCHANGED <<layers, downloading, extracting, task_index>>

\* faulty variant of OnComplete: the layer's task is removed from both pools
OnComplete_BothPools(status, layer_id) ==
    LET pull == status = <<PullComplete>>
        down == IF layer_id \in DOMAIN downloading
                THEN RemoveTask(tasks, downloading[layer_id]) ELSE tasks
        removed == IF layer_id \in DOMAIN extracting
                   THEN RemoveTask(down, extracting[layer_id]) ELSE down
    IN  /\ layers_downloaded' =
               IF pull THEN layers_downloaded ELSE layers_downloaded \cup {layer_id}
        /\ layers_extracted' =
               IF pull THEN layers_extracted \cup {layer_id} ELSE layers_extracted
        /\ downloading' =
               IF layer_id \in DOMAIN downloading THEN Pop(downloading, layer_id)
               ELSE downloading
        /\ extracting' =
               IF layer_id \in DOMAIN extracting THEN Pop(extracting, layer_id)
               ELSE extracting
        /\ tasks' = UpdateCompleted(
                        UpdateCompleted(removed, task_layers_download,
                                        Cardinality(layers_downloaded')),
                        task_layers_extract, Cardinality(layers_extracted'))
        /\ UNCHANGED <<layers, task_index>>

\* status == "Download complete" or status == "Pull complete" (54-70)
OnComplete(status, layer_id) ==
    LET pull == status = <<PullComplete>>
        task_pool == IF pull THEN extracting ELSE downloading
        present == layer_id \in DOMAIN task_pool
        removed == IF present THEN RemoveTask(tasks, task_pool[layer_id]) ELSE tasks
    IN  /\ layers_downloaded' =
               IF pull THEN layers_downloaded ELSE layers_downloaded \cup {layer_id}
        /\ layers_extracted' =
               IF pull THEN layers_extracted \cup {layer_id} ELSE layers_extracted
        /\ downloading' =
               IF ~pull /\ present THEN Pop(downloading, layer_id) ELSE downloading
        /\ extracting' =
               IF pull /\ present THEN Pop(extracting, layer_id) ELSE extracting
        /\ tasks' = UpdateCompleted(
                        UpdateCompleted(removed, task_layers_download,
                                        Cardinality(layers_downloaded')),
                        task_layers_extract, Cardinality(layers_extracted'))
        /\ UNCHANGED <<layers, task_index>>

\* faulty variant of OnProgress: a task is added on every progress event
OnProgress_AlwaysAdds(l, status, layer_id) ==
    LET extract == status = <<Extracting>>
        task_pool == IF extract THEN extracting ELSE downloading
        started == IF extract /\ ~GetTask(tasks, task_layers_extract).started
                   THEN StartTask(tasks, task_layers_extract) ELSE tasks
        new == TRUE
        task_id == IF new THEN task_index ELSE task_pool[layer_id]
        detail == Get(l, "progressDetail", EmptyDict)
        added == IF new
                 THEN AddTask(started, task_index,
                              <<IF extract THEN "[green]" ELSE "[blue]">>
                                  \o status \o <<" ", layer_id>>,
                              Get(detail, "total", DefaultTotal), TRUE)
                 ELSE started
    IN  /\ tasks' = UpdateCompleted(added, task_id, Get(detail, "current", DefaultCurrent))
        /\ task_index' = IF new THEN task_index + 1 ELSE task_index
        /\ downloading' =
               IF ~extract /\ new THEN Put(downloading, layer_id, task_id) ELSE downloading
        /\ extracting' =
               IF extract /\ new THEN Put(extracting, layer_id, task_id) ELSE extracting
        /\ UNCHANGED <<layers, layers_downloaded, layers_extracted>>

\* status == "Downloading" or status == "Extracting" (71-84)
OnProgress(l, status, layer_id) ==
    LET extract == status = <<Extracting>>
        task_pool == IF extract THEN extracting ELSE downloading
        started == IF extract /\ ~GetTask(tasks, task_layers_extract).started
                   THEN StartTask(tasks, task_layers_extract) ELSE tasks
        new == layer_id \notin DOMAIN task_pool
        task_id == IF new THEN task_index ELSE task_pool[layer_id]
        detail == Get(l, "progressDetail", EmptyDict)
        added == IF new
                 THEN AddTask(started, task_index,
                              <<IF extract THEN "[green]" ELSE "[blue]">>
                                  \o status \o <<" ", layer_id>>,
                              Get(detail, "total", DefaultTotal), TRUE)
                 ELSE started
    IN  /\ tasks' = UpdateCompleted(added, task_id, Get(detail, "current", DefaultCurrent))
        /\ task_index' = IF new THEN task_index + 1 ELSE task_index
        /\ downloading' =
               IF ~extract /\ new THEN Put(downloading, layer_id, task_id) ELSE downloading
        /\ extracting' =
               IF extract /\ new THEN Put(extracting, layer_id, task_id) ELSE extracting
        /\ UNCHANGED <<layers, layers_downloaded, layers_extracted>>

\* faulty variant of Return: the end of the call ends the caller's loop too
Return_EndsCaller ==
    /\ live' = FALSE
    /\ pc' = "done"

\* faulty variant of Return: the display is not stopped (not transient)
Return_KeepsDisplay ==
    /\ live' = live
    /\ pc' = IF entry = "buildDockerImage" THEN "build" ELSE "done"

\* leaving the with block and returning to the caller (break, or the end of
\* the stream): ExegolProgress.__exit__ stops the transient display
Return ==
    /\ live' = FALSE
    /\ pc' = IF entry = "buildDockerImage" THEN "build" ELSE "done"

\* the loop goes on to pull the next element
Continue == pc' = "pull" /\ live' = live

\* faulty variant of OnOperationComplete: quick_exit is not looked at, no break
OnOperationComplete_NeverBreaks ==
    /\ log' = << <<"success", "downloadDockerLayer">> >>
    /\ Continue
    /\ UNCHANGED <<localVars, tasks, task_index>>

\* faulty variant of OnOperationComplete: quick_exit is not looked at, always break
OnOperationComplete_AlwaysBreaks ==
    /\ log' = << <<"success", "downloadDockerLayer">> >>
    /\ Return
    /\ UNCHANGED <<localVars, tasks, task_index>>

\* "Image is up to date" in status or "Status: Downloaded newer image for" in status (85-88)
OnOperationComplete ==
    /\ log' = << <<"success", "downloadDockerLayer">> >>
    /\ IF quick_exit THEN Return ELSE Continue
    /\ UNCHANGED <<localVars, tasks, task_index>>

\* faulty variant of OnOther: a line with stream text is logged the way the
\* build loop logs a step
OnOther_LogsBuildLine ==
    /\ log' = IF "stream" \in DOMAIN line'
              THEN << <<"info", "buildDockerImage">> >>
              ELSE << <<"debug", "downloadDockerLayer">> >>
    /\ Continue
    /\ UNCHANGED <<localVars, tasks, task_index>>

\* else (89-90)
OnOther ==
    /\ log' = << <<"debug", "downloadDockerLayer">> >>
    /\ Continue
    /\ UNCHANGED <<localVars, tasks, task_index>>

\* faulty variant of ProcessLine: the progress statuses are matched as
\* prefixes ("Downloading ..."), not as whole statuses
ProcessLine_PrefixMatch(l) ==
    LET status == Get(l, "status", <<>>)
        layer_id == Get(l, "id", "None")
        head == IF Len(status) > 0 THEN <<status[1]>> ELSE <<>>
    IN  IF status = <<PullingFsLayer>>
        THEN OnPullingFsLayer(layer_id) /\ Continue /\ log' = <<>>
        ELSE IF Contains(status, PullingFrom)
        THEN OnPullingFrom(l, status) /\ Continue /\ log' = <<>>
        ELSE IF status = <<DownloadComplete>> \/ status = <<PullComplete>>
        THEN OnComplete(status, layer_id) /\ Continue /\ log' = <<>>
        ELSE IF head = <<Downloading>> \/ head = <<Extracting>>
        THEN OnProgress(l, head, layer_id) /\ Continue /\ log' = <<>>
        ELSE IF Contains(status, ImageUpToDate) \/ Contains(status, DownloadedNewer)
        THEN OnOperationComplete
        ELSE OnOther

\* faulty variant of ProcessLine: the completion phrases are tested before
\* the 'Pulling from ' phrase
ProcessLine_CompletionFirst(l) ==
    LET status == Get(l, "status", <<>>)
        layer_id == Get(l, "id", "None")
    IN  IF status = <<PullingFsLayer>>
        THEN OnPullingFsLayer(layer_id) /\ Continue /\ log' = <<>>
        ELSE IF Contains(status, ImageUpToDate) \/ Contains(status, DownloadedNewer)
        THEN OnOperationComplete
        ELSE IF Contains(status, PullingFrom)
        THEN OnPullingFrom(l, status) /\ Continue /\ log' = <<>>
        ELSE IF status = <<DownloadComplete>> \/ status = <<PullComplete>>
        THEN OnComplete(status, layer_id) /\ Continue /\ log' = <<>>
        ELSE IF status = <<Downloading>> \/ status = <<Extracting>>
        THEN OnProgress(l, status, layer_id) /\ Continue /\ log' = <<>>
        ELSE OnOther

\* the loop body for one line (43-90)
ProcessLine(l) ==
    LET status == Get(l, "status", <<>>)
        layer_id == Get(l, "id", "None")
    IN  IF status = <<PullingFsLayer>>
        THEN OnPullingFsLayer(layer_id) /\ Continue /\ log' = <<>>
        ELSE IF Contains(status, PullingFrom)
        THEN OnPullingFrom(l, status) /\ Continue /\ log' = <<>>
        ELSE IF status = <<DownloadComplete>> \/ status = <<PullComplete>>
        THEN OnComplete(status, layer_id) /\ Continue /\ log' = <<>>
        ELSE IF status = <<Downloading>> \/ status = <<Extracting>>
        THEN OnProgress(l, status, layer_id) /\ Continue /\ log' = <<>>
        ELSE IF Contains(status, ImageUpToDate) \/ Contains(status, DownloadedNewer)
        THEN OnOperationComplete
        ELSE OnOther

\* faulty variant of Enter: the sets and pools are shared by all calls
Enter_SharedLocals(quick) ==
    /\ quick_exit' = quick
    /\ UNCHANGED <<layers, layers_downloaded, layers_extracted, downloading, extracting>>
    /\ task_layers_download' = 0
    /\ task_layers_extract' = 1
    /\ tasks' = AddTask(AddTask(EmptyDict, 0, <<"[bold red]Downloading layers...">>, 0, TRUE),
                        1, <<"[bold gold1]Extracting layers...">>, 0, FALSE)
    /\ task_index' = 2
    /\ live' = TRUE
    /\ pc' = "pull"
    /\ invocations' = invocations + 1

\* the call's prologue (22-41): fresh locals, a fresh progress display with
\* the two aggregate rows, the extract row not started
Enter(quick) ==
    /\ quick_exit' = quick
    /\ layers' = {}
    /\ layers_downloaded' = {}
    /\ layers_extracted' = {}
    /\ downloading' = EmptyDict
    /\ extracting' = EmptyDict
    /\ task_layers_download' = 0
    /\ task_layers_extract' = 1
    /\ tasks' = AddTask(AddTask(EmptyDict, 0, <<"[bold red]Downloading layers...">>, 0, TRUE),
                        1, <<"[bold gold1]Extracting layers...">>, 0, FALSE)
    /\ task_index' = 2
    /\ live' = TRUE
    /\ pc' = "pull"
    /\ invocations' = invocations + 1

(***************************************************************************)
(* The event kinds of the specification's classifier, in its priority      *)
(* order (spec.md 4.1).                                                    *)
(***************************************************************************)
SpecKind(status) ==
    IF status = <<PullingFsLayer>> THEN "LayerDiscovered"
    ELSE IF Contains(status, PullingFrom) THEN "SourceNamed"
    ELSE IF status = <<DownloadComplete>> THEN "DownloadFinished"
    ELSE IF status = <<PullComplete>> THEN "ExtractFinished"
    ELSE IF status = <<Downloading>> THEN "DownloadProgress"
    ELSE IF status = <<Extracting>> THEN "ExtractProgress"
    ELSE IF Contains(status, ImageUpToDate) \/ Contains(status, DownloadedNewer)
    THEN "OperationComplete"
    ELSE "Unclassified"

(***************************************************************************)
(* History of the current invocation, recorded from the lines themselves   *)
(* (not from the tracker): what the stream has reported so far.            *)
(***************************************************************************)
Observe(l) ==
    LET status == Get(l, "status", <<>>)
        layer_id == Get(l, "id", "None")
    IN  /\ obs_discovered' = IF status = <<PullingFsLayer>>
                             THEN obs_discovered \cup {layer_id} ELSE obs_discovered
        /\ obs_download_finished' = IF status = <<DownloadComplete>>
                                    THEN obs_download_finished \cup {layer_id}
                                    ELSE obs_download_finished
        /\ obs_extract_finished' = IF status = <<PullComplete>>
                                   THEN obs_extract_finished \cup {layer_id}
                                   ELSE obs_extract_finished
        /\ obs_extract_activity' = (obs_extract_activity \/ status = <<Extracting>>
                                        \/ status = <<PullComplete>>)
        /\ obs_operation_complete' = (obs_operation_complete
                                          \/ SpecKind(status) = "OperationComplete")
        /\ obs_repeated' = (pc = "pull" /\ l = line)

ResetObs ==
    /\ obs_discovered' = {}
    /\ obs_download_finished' = {}
    /\ obs_extract_finished' = {}
    /\ obs_extract_activity' = FALSE
    /\ obs_operation_complete' = FALSE
    /\ obs_repeated' = FALSE

(***************************************************************************)
(* buildDockerImage: the logging of one build line (TUI.py 96-106).        *)
(***************************************************************************)
Whitespace == {" ", "\n"}
\* tokens of twelve characters of [a-z0-9]
Hash12 == {"0123456789ab"}
\* stream_text.strip() == ''
IsBlank(text) == \A i \in 1..Len(text) : text[i] \in Whitespace
\* re.match(r"Successfully built [a-z0-9]{12}", text)
MatchSuccessfullyBuilt(text) ==
    Len(text) >= 2 /\ text[1] = "Successfully built " /\ text[2] \in Hash12
\* re.match(r"^Successfully tagged ", text)
MatchSuccessfullyTagged(text) == Len(text) >= 1 /\ text[1] = "Successfully tagged "

BuildLog(stream_text) ==
    IF IsBlank(stream_text) THEN <<>>
    ELSE IF Contains(stream_text, "Step")
    THEN << <<"info", "buildDockerImage">> >>
    ELSE IF \/ Contains(stream_text, "--->")
            \/ Contains(stream_text, "Removing intermediate container ")
            \/ MatchSuccessfullyBuilt(stream_text)
            \/ MatchSuccessfullyTagged(stream_text)
    THEN << <<"verbose", "buildDockerImage">> >>
    ELSE << <<"raw", "buildDockerImage">> >>

(***************************************************************************)
(* The stream consumers as steps.  One step pulls one element and runs the *)
(* loop body on it to its end: nothing else runs in between (one thread).  *)
(***************************************************************************)
\* ExegolTUI.downloadDockerLayer(stream, quick_exit) is called
CallDownload ==
    /\ pc = "call" /\ entry = "downloadDockerLayer"
    /\ Enter(quick_exit)
    /\ ResetObs
    /\ log' = <<>>
    /\ UNCHANGED <<entry, closed, pulled, line>>

\* ExegolTUI.buildDockerImage(build_stream) is called
CallBuild ==
    /\ pc = "call" /\ entry = "buildDockerImage"
    /\ pc' = "build"
    /\ log' = <<>>
    /\ UNCHANGED <<entry, closed, pulled, line, quick_exit, invocations,
                   localVars, progressVars, obsVars>>

\* downloadDockerLayer pulls the next element and processes it (42-90)
PullStep ==
    /\ pc = "pull" /\ ~closed /\ pulled < MaxStream
    /\ \E l \in Lines :
          /\ line' = l
          /\ pulled' = pulled + 1
          /\ ProcessLine(l)
          /\ Observe(l)
    /\ UNCHANGED <<entry, closed, quick_exit, invocations,
                   task_layers_download, task_layers_extract>>

\* downloadDockerLayer finds the stream exhausted: the loop and the call end
PullEnd ==
    /\ pc = "pull" /\ ~closed
    /\ closed' = TRUE
    /\ Return
    /\ log' = <<>>
    /\ UNCHANGED <<entry, pulled, line, quick_exit, invocations, localVars,
                   tasks, task_index, task_layers_download, task_layers_extract,
                   obsVars>>

\* buildDockerImage pulls the next element and processes it (95-109)
BuildStep ==
    /\ pc = "build" /\ ~closed /\ pulled < MaxStream
    /\ \E l \in Lines :
          LET stream_text == Get(l, "stream", <<>>)
          IN  /\ line' = l
              /\ pulled' = pulled + 1
              /\ IF Contains(stream_text, ": FROM ")
                 THEN /\ log' = BuildLog(stream_text)
                                    \o << <<"info", "buildDockerImage">> >>
                      /\ Enter(TRUE)
                      /\ ResetObs
                 ELSE /\ log' = BuildLog(stream_text)
                      /\ pc' = "build"
                      /\ UNCHANGED <<quick_exit, invocations, localVars,
                                     progressVars, obsVars>>
    /\ UNCHANGED <<entry, closed>>

\* buildDockerImage finds the stream exhausted: the call ends
BuildEnd ==
    /\ pc = "build"
    /\ closed' = TRUE
    /\ pc' = "done"
    /\ log' = <<>>
    /\ UNCHANGED <<entry, pulled, line, quick_exit, invocations, localVars,
                   progressVars, obsVars>>

(***************************************************************************)
(* printTable and the selectors (TUI.py 111-238).                          *)
(*  - A list is a sequence; a dict is the sequence of its <<key, value>>   *)
(*    items in insertion order.                                            *)
(*  - A selectable object is [type, key]: its class and what getKey()      *)
(*    returns, which is also what o == "text" compares.                    *)
(*  - A table cell is a tuple of strings: <<s>> for the string s,          *)
(*    <<getter, key>> for the value a getter of the object returns.        *)
(***************************************************************************)
VARIABLES
    data,          \* the selector's data argument: [type, items]
    object_type,   \* selectFromTable's object_type argument
    default,       \* the selector's default argument ("None": not given)
    verbosity,     \* the logger's level: "normal", "verbose", "debug"
    console,       \* the tables printed on the console so far
    prompt,        \* <<[choices, default]>> once Prompt.ask has been called
    choice,        \* the selector's local: what Prompt.ask returned
    result,        \* <<value>> once the selector has returned a value
    raised         \* the exception the call ended with, "" if none

selectVars == <<data, object_type, default, verbosity, console, prompt, choice,
                result, raised>>
vars == <<streamVars, selectVars>>

\* Largest number of items of a list or dict handed to a selector.
MaxItems == 3
Keys == {"k1", "k2", "k3"}
Values == {"v1", "v2"}
ObjectTypes == {"ExegolImage", "ExegolContainer"}

\* logger.isEnabledFor(ExeLog.VERBOSE), logger.isEnabledFor(logging.DEBUG)
VerboseMode == verbosity \in {"verbose", "debug"}
DebugMode == verbosity = "debug"
Bool(b) == IF b THEN "True" ELSE "False"

\* SelectableInterface.getKey()
GetKey(o) == o.key
\* choice == o, for a str and a SelectableInterface
EqualsKey(text, o) == o.key = text

\* faulty variant of BuildImageTable: the Size column is added at every level
BuildImageTable_AlwaysSize(items) ==
    [title |-> "Available images",
     columns |-> (IF VerboseMode THEN <<"Id">> ELSE <<>>) \o <<"Image tag">>
                 \o (IF VerboseMode THEN <<"Download size", "Disk size">> ELSE <<>>)
                 \o <<"Size", "Status", "Type">>,
     rows |-> [i \in 1..Len(items) |->
                 LET image == items[i]
                 IN  IF VerboseMode
                     THEN << <<"getId", image.key>>, <<"getName", image.key>>,
                             <<"getDownloadSize", image.key>>,
                             <<"getRealSize", image.key>>,
                             <<"getStatus", image.key>>, <<"getType", image.key>> >>
                     ELSE << <<"getName", image.key>>, <<"getSize", image.key>>,
                             <<"getStatus", image.key>>, <<"getType", image.key>> >>]]

\* __buildImageTable (133-156)
BuildImageTable(items) ==
    [title |-> "Available images",
     columns |-> (IF VerboseMode THEN <<"Id">> ELSE <<>>) \o <<"Image tag">>
                 \o (IF VerboseMode THEN <<"Download size", "Disk size">> ELSE <<"Size">>)
                 \o <<"Status", "Type">>,
     rows |-> [i \in 1..Len(items) |->
                 LET image == items[i]
                 IN  IF VerboseMode
                     THEN << <<"getId", image.key>>, <<"getName", image.key>>,
                             <<"getDownloadSize", image.key>>,
                             <<"getRealSize", image.key>>,
                             <<"getStatus", image.key>>, <<"getType", image.key>> >>
                     ELSE << <<"getName", image.key>>, <<"getSize", image.key>>,
                             <<"getStatus", image.key>>, <<"getType", image.key>> >>]]

\* __buildContainerTable (159-183)
BuildContainerTable(items) ==
    [title |-> "[gold3][g]Available containers[/g][/gold3]",
     columns |-> (IF VerboseMode THEN <<"Id">> ELSE <<>>)
                 \o <<"Container tag", "State", "Image tag", "Configurations">>
                 \o (IF VerboseMode THEN <<"Mounts", "Devices", "Envs">> ELSE <<>>),
     rows |-> [i \in 1..Len(items) |->
                 LET container == items[i]
                 IN
                 IF VerboseMode
                 THEN << <<"getId", container.key>>, <<"name", container.key>>,
                         <<"getTextStatus", container.key>>,
                         <<"image.getName", container.key>>,
                         <<"config.getTextFeatures", container.key>>,
                         <<"config.getTextMounts", Bool(DebugMode), container.key>>,
                         <<"config.getTextDevices", Bool(DebugMode), container.key>>,
                         <<"config.getTextEnvs", Bool(DebugMode), container.key>> >>
                 ELSE << <<"name", container.key>>, <<"getTextStatus", container.key>>,
                         <<"image.getName", container.key>>,
                         <<"config.getTextFeatures", container.key>> >>]]

\* __buildStringTable (186-193)
BuildStringTable(items, title) ==
    [title |-> "None",
     columns |-> <<title>>,
     rows |-> [i \in 1..Len(items) |-> << <<items[i]>> >>]]

\* printTable(data, title) (112-130), items of class type: what it prints,
\* logs and raises.  A list of strings is tabulated under the title as its
\* column header (line 125 passes title on, None when printTable got none),
\* and console.print (130) cannot render a table whose header is None: it
\* raises NotRenderableError and prints nothing.
PrintTable(items, type, title) ==
    IF Len(items) = 0
    THEN [printed |-> <<>>, log |-> << <<"info", "printTable">> >>, raised |-> ""]
    ELSE IF type = "ExegolImage"
    THEN [printed |-> <<BuildImageTable(items)>>, log |-> <<>>, raised |-> ""]
    ELSE IF type = "ExegolContainer"
    THEN [printed |-> <<BuildContainerTable(items)>>, log |-> <<>>, raised |-> ""]
    ELSE IF type = "str" /\ title = "None"
    THEN [printed |-> <<>>, log |-> <<>>, raised |-> "NotRenderableError"]
    ELSE IF type = "str"
    THEN [printed |-> <<BuildStringTable(items, title)>>, log |-> <<>>, raised |-> ""]
    ELSE [printed |-> <<>>, log |-> << <<"error", "printTable">> >>,
          raised |-> "NotImplementedError"]

\* Prompt.ask(..., default=default, choices=choices): what it can return.
\* An empty answer returns the default as it is; any other answer is
\* accepted only if it is one of the choices, and asked again otherwise.
PromptAnswers(p) == {p.choices[i] : i \in 1..Len(p.choices)} \cup {p.default}

\* printTable(data, title) called by itself (112-130)
PrintTableCall ==
    /\ pc = "call" /\ entry = "printTable"
    /\ LET printed == PrintTable(data.items, data.type, "None")
       IN  /\ console' = console \o printed.printed
           /\ log' = printed.log
           /\ raised' = printed.raised
    /\ pc' = "done"
    /\ UNCHANGED <<entry, closed, pulled, line, quick_exit, invocations, localVars,
                   progressVars, obsVars>>
    /\ UNCHANGED <<data, object_type, default, verbosity, prompt, choice, result>>

\* [obj.getKey() for obj in data]
KeysOf(items) == [i \in 1..Len(items) |-> GetKey(items[i])]
\* for o in data: if choice == o: the index of the first such o
FirstEqual(items, text) ==
    CHOOSE i \in 1..Len(items) :
        EqualsKey(text, items[i]) /\ \A j \in 1..(i - 1) : ~EqualsKey(text, items[j])

\* faulty variant of SelectFromTableCall: the empty list is not rejected first, so
\* that it reaches printTable, and choices[0] or the prompt
SelectFromTableCall_NoEmptyCheck ==
    /\ pc = "call" /\ entry = "selectFromTable"
    /\ LET printed == PrintTable(data.items, data.type, "None")
           choices == KeysOf(data.items)
       IN  /\ console' = console \o printed.printed
           /\ log' = printed.log
           /\ IF default = "None" /\ Len(choices) = 0
              THEN raised' = "IndexError" /\ pc' = "done" /\ UNCHANGED prompt
              ELSE /\ prompt' = <<[choices |-> choices,
                                   default |-> IF default = "None" THEN choices[1]
                                               ELSE default]>>
                   /\ raised' = ""
                   /\ pc' = "prompt"
    /\ UNCHANGED <<entry, closed, pulled, line, quick_exit, invocations, localVars,
                   progressVars, obsVars>>
    /\ UNCHANGED <<data, object_type, default, verbosity, choice, result>>

\* selectFromTable up to the prompt (199-212)
SelectFromTableCall ==
    /\ pc = "call" /\ entry = "selectFromTable"
    /\ IF Len(data.items) = 0
       THEN /\ log' = << <<"warning", "selectFromTable",
                           IF object_type = "ExegolImage"
                           THEN "No images were found"
                           ELSE "No container were found">> >>
            /\ raised' = "IndexError"
            /\ pc' = "done"
            /\ UNCHANGED <<console, prompt>>
       ELSE LET printed == PrintTable(data.items, data.type, "None")
                choices == KeysOf(data.items)
            IN  /\ console' = console \o printed.printed
                /\ log' = printed.log
                /\ prompt' = <<[choices |-> choices,
                                default |-> IF default = "None" THEN choices[1]
                                            ELSE default]>>
                /\ raised' = ""
                /\ pc' = "prompt"
    /\ UNCHANGED <<entry, closed, pulled, line, quick_exit, invocations, localVars,
                   progressVars, obsVars>>
    /\ UNCHANGED <<data, object_type, default, verbosity, choice, result>>

\* selectFromTable from the answer on (211-216)
SelectFromTableAnswer ==
    /\ pc = "prompt" /\ entry = "selectFromTable"
    /\ \E answer \in PromptAnswers(prompt[1]) :
          /\ choice' = answer
          /\ IF \E i \in 1..Len(data.items) : EqualsKey(answer, data.items[i])
             THEN /\ result' = <<data.items[FirstEqual(data.items, answer)]>>
                  /\ log' = <<>>
             ELSE /\ result' = <<>>
                  /\ log' = << <<"critical", "selectFromTable",
                                 "Unknown error, cannot fetch selected object.">> >>
    /\ pc' = "done"
    /\ UNCHANGED <<entry, closed, pulled, line, quick_exit, invocations, localVars,
                   progressVars, obsVars>>
    /\ UNCHANGED <<data, object_type, default, verbosity, console, prompt, raised>>

\* list(data.keys())
DictKeys(items) == [i \in 1..Len(items) |-> items[i][1]]
\* data[key] of a dict that holds key
DictValue(items, key) == items[CHOOSE i \in 1..Len(items) : items[i][1] = key][2]

\* selectFromList up to the prompt (223-234)
SelectFromListCall ==
    /\ pc = "call" /\ entry = "selectFromList"
    /\ IF Len(data.items) = 0
       THEN /\ log' = << <<"warning", "selectFromList", "No options were found">> >>
            /\ raised' = "IndexError"
            /\ pc' = "done"
            /\ UNCHANGED <<console, prompt>>
       ELSE LET submit_data == IF data.type = "dict" THEN DictKeys(data.items)
                               ELSE data.items
                printed == PrintTable(submit_data, "str", "Options")
            IN  /\ console' = console \o printed.printed
                /\ log' = printed.log
                /\ prompt' = <<[choices |-> submit_data,
                                default |-> IF default = "None" THEN submit_data[1]
                                            ELSE default]>>
                /\ raised' = ""
                /\ pc' = "prompt"
    /\ UNCHANGED <<entry, closed, pulled, line, quick_exit, invocations, localVars,
                   progressVars, obsVars>>
    /\ UNCHANGED <<data, object_type, default, verbosity, choice, result>>

\* faulty variant of SelectFromListAnswer: the choice is returned for a dict too
SelectFromListAnswer_ReturnsKey ==
    /\ pc = "prompt" /\ entry = "selectFromList"
    /\ \E answer \in PromptAnswers(prompt[1]) :
          /\ choice' = answer
          /\ result' = <<answer>> /\ raised' = ""
    /\ log' = <<>>
    /\ pc' = "done"
    /\ UNCHANGED <<entry, closed, pulled, line, quick_exit, invocations, localVars,
                   progressVars, obsVars>>
    /\ UNCHANGED <<data, object_type, default, verbosity, console, prompt>>

\* selectFromList from the answer on (233-238)
SelectFromListAnswer ==
    /\ pc = "prompt" /\ entry = "selectFromList"
    /\ \E answer \in PromptAnswers(prompt[1]) :
          /\ choice' = answer
          /\ IF data.type = "dict"
             THEN IF \E i \in 1..Len(data.items) : data.items[i][1] = answer
                  THEN result' = <<DictValue(data.items, answer)>> /\ raised' = ""
                  ELSE result' = <<>> /\ raised' = "KeyError"
             ELSE result' = <<answer>> /\ raised' = ""
    /\ log' = <<>>
    /\ pc' = "done"
    /\ UNCHANGED <<entry, closed, pulled, line, quick_exit, invocations, localVars,
                   progressVars, obsVars>>
    /\ UNCHANGED <<data, object_type, default, verbosity, console, prompt>>

(***************************************************************************)
(* The calls the model makes and their arguments.                          *)
(***************************************************************************)
\* sequences over S of at most n elements
SeqsUpTo(S, n) == UNION {[1..m -> S] : m \in 0..n}
\* no element of the sequence occurs twice
Distinct(s) == \A i, j \in 1..Len(s) : i # j => s[i] # s[j]
\* lists of selectable objects of one class, their keys unique
ObjectLists ==
    {[type |-> t, items |-> [i \in 1..Len(ks) |-> [type |-> t, key |-> ks[i]]]] :
        t \in ObjectTypes,
        ks \in {s \in SeqsUpTo(Keys, MaxItems) : Distinct(s)}}
StringLists == {[type |-> "str", items |-> s] : s \in SeqsUpTo(Keys, MaxItems)}
Dicts == {[type |-> "dict", items |-> s] :
            s \in {d \in SeqsUpTo(Keys \X Values, MaxItems) :
                      Distinct(DictKeys(d))}}
\* a list of objects printTable has no table for
OtherLists == {[type |-> "int", items |-> <<"1">>]}
Defaults == {"None", "other"} \cup Keys

InitStream ==
    /\ pc = "call"
    /\ closed = FALSE
    /\ pulled = 0
    /\ line = [stream |-> <<>>]
    /\ invocations = 0
    /\ layers = {} /\ layers_downloaded = {} /\ layers_extracted = {}
    /\ downloading = EmptyDict /\ extracting = EmptyDict
    /\ tasks = EmptyDict /\ task_index = 0
    /\ task_layers_download = 0 /\ task_layers_extract = 0
    /\ live = FALSE
    /\ log = <<>>
    /\ obs_discovered = {} /\ obs_download_finished = {}
    /\ obs_extract_finished = {} /\ obs_extract_activity = FALSE
    /\ obs_operation_complete = FALSE /\ obs_repeated = FALSE

InitSelect ==
    /\ console = <<>> /\ prompt = <<>> /\ choice = "" /\ result = <<>> /\ raised = ""

Init ==
    /\ InitStream
    /\ InitSelect
    /\ \/ /\ entry = "downloadDockerLayer" /\ quick_exit = FALSE
          /\ data = [type |-> "str", items |-> <<>>]
          /\ object_type = "None" /\ default = "None" /\ verbosity = "normal"
       \/ /\ entry = "buildDockerImage" /\ quick_exit = FALSE
          /\ data = [type |-> "str", items |-> <<>>]
          /\ object_type = "None" /\ default = "None" /\ verbosity = "normal"
       \/ /\ entry = "selectFromTable" /\ quick_exit = FALSE
          /\ data \in ObjectLists
          /\ object_type \in ObjectTypes \cup {"None"}
          /\ default \in Defaults
          /\ verbosity \in {"normal", "verbose", "debug"}
       \/ /\ entry = "printTable" /\ quick_exit = FALSE
          /\ \/ data \in ObjectLists
             \/ data \in StringLists
             \/ data \in OtherLists
          /\ object_type = "None"
          /\ default = "None"
          /\ verbosity \in {"normal", "verbose", "debug"}
       \/ /\ entry = "selectFromList" /\ quick_exit = FALSE
          /\ data \in StringLists \cup Dicts
          /\ object_type = "None"
          /\ default \in Defaults
          /\ verbosity \in {"normal", "verbose", "debug"}

Next ==
    \/ CallDownload /\ UNCHANGED selectVars
    \/ CallBuild /\ UNCHANGED selectVars
    \/ PullStep /\ UNCHANGED selectVars
    \/ PullEnd /\ UNCHANGED selectVars
    \/ BuildStep /\ UNCHANGED selectVars
    \/ BuildEnd /\ UNCHANGED selectVars
    \/ PrintTableCall
    \/ SelectFromTableCall
    \/ SelectFromTableAnswer
    \/ SelectFromListCall
    \/ SelectFromListAnswer

Spec == Init /\ [][Next]_vars

\* a consumer that can take a step does take it: nothing else runs, and the
\* stream either yields its next element or closes
FairSpec == Spec /\ WF_vars(Next)

(***************************************************************************)
(* Properties.                                                             *)
(***************************************************************************)
\* a downloadDockerLayer invocation has begun (its locals and rows exist)
Invoked == invocations > 0
\* the step pulls an element into the running downloadDockerLayer loop
IsPullStep == pc = "pull" /\ pulled' = pulled + 1
\* the step pulls an element into buildDockerImage's own loop
IsBuildStep == pc = "build" /\ pulled' = pulled + 1
StatusOf(l) == Get(l, "status", <<>>)
LayerOf(l) == Get(l, "id", "None")
\* the tracker state of the running invocation
trackerVars == <<layers, layers_downloaded, layers_extracted, downloading,
                 extracting, tasks, task_index>>
DownloadRow == tasks[task_layers_download]
ExtractRow == tasks[task_layers_extract]
IsFinish(l) == StatusOf(l) = <<DownloadComplete>> \/ StatusOf(l) = <<PullComplete>>
\* the per-layer rows on the display for layer id in the phase of status
RowsOf(ts, status, id) ==
    {t \in DOMAIN ts : Len(ts[t].description) = 4
                        /\ ts[t].description[2] = status
                        /\ ts[t].description[4] = id}

\* C1: after any prefix of any event stream, the totals of the download and
\* the extract aggregate rows both equal the number of distinct layer ids
\* that 'Pulling fs layer' events have named so far, and the totals never
\* decrease during an invocation.
C1_TotalsCountDiscovered ==
    /\ [](Invoked => /\ DownloadRow.total = Cardinality(obs_discovered)
                     /\ ExtractRow.total = Cardinality(obs_discovered))
    /\ [][(Invoked /\ invocations' = invocations)
            => /\ DownloadRow'.total >= DownloadRow.total
               /\ ExtractRow'.total >= ExtractRow.total]_vars

\* C1 witness: two distinct layers were discovered, the last 'Pulling fs
\* layer' event repeating the one before it, and both totals are 2
C1_Witness ==
    /\ pc = "pull" /\ obs_repeated
    /\ StatusOf(line) = <<PullingFsLayer>>
    /\ Cardinality(obs_discovered) = 2
    /\ DownloadRow.total = 2 /\ ExtractRow.total = 2

\* C2 (as claimed): in every reachable tracker state the layers marked
\* completed, in either phase, are layers that were seen.
C2_CompletedSubsetSeen ==
    Invoked => layers_downloaded \subseteq layers /\ layers_extracted \subseteq layers

\* C3: the completed count of the download aggregate row is the number of
\* distinct layers that reported 'Download complete', that of the extract
\* aggregate row the number of distinct layers that reported 'Pull
\* complete', and both completed sets only grow during an invocation.
C3_CompletedCountsFinished ==
    /\ [](Invoked => /\ layers_downloaded = obs_download_finished
                     /\ layers_extracted = obs_extract_finished
                     /\ DownloadRow.completed = Cardinality(obs_download_finished)
                     /\ ExtractRow.completed = Cardinality(obs_extract_finished))
    /\ [][(Invoked /\ invocations' = invocations)
            => /\ layers_downloaded \subseteq layers_downloaded'
               /\ layers_extracted \subseteq layers_extracted']_vars

\* C3 witness: two layers finished downloading and one of them extracting,
\* and the aggregate rows say 2 and 1
C3_Witness ==
    /\ pc = "pull"
    /\ Cardinality(obs_download_finished) = 2 /\ Cardinality(obs_extract_finished) = 1
    /\ DownloadRow.completed = 2 /\ ExtractRow.completed = 1

\* C4: right after a 'Download complete' or 'Pull complete' event for a
\* layer is processed, that layer has no task of that phase in the pool and
\* no row on the display; and processing the same event again changes
\* nothing of the tracker state (pools, sets, rows, counters, started flag).
C4_FinishRemovesAndIsIdempotent ==
    [][(IsPullStep /\ IsFinish(line'))
         => /\ pc' = "pull"
            /\ LayerOf(line') \notin
                  DOMAIN (IF StatusOf(line') = <<PullComplete>>
                          THEN extracting' ELSE downloading')
            /\ RowsOf(tasks', IF StatusOf(line') = <<PullComplete>>
                              THEN Extracting ELSE Downloading,
                      LayerOf(line')) = {}
            /\ (line' = line => UNCHANGED trackerVars)]_vars

\* C4 witness: a finish event for a layer that had a row was processed, then
\* processed again
C4_Witness ==
    /\ pc = "pull" /\ obs_repeated /\ IsFinish(line)
    /\ StatusOf(line) = <<DownloadComplete>>
    /\ task_index > 2
    /\ LayerOf(line) \notin DOMAIN downloading
    /\ DownloadRow.completed = 1

\* C5 (as claimed): the extract aggregate row's started flag is false in
\* every state before the first 'Extracting' or 'Pull complete' event of the
\* stream and true in every state after it.
C5_StartedIffExtractActivity ==
    Invoked => (ExtractRow.started <=> obs_extract_activity)


\* the status holds one of the two completion phrases
HasCompletionPhrase(status) ==
    Contains(status, ImageUpToDate) \/ Contains(status, DownloadedNewer)
\* the build line starts a pull sub-consumption
IsFromLine(l) == Contains(Get(l, "stream", <<>>), ": FROM ")
\* a step of buildDockerImage on a ': FROM ' line enters downloadDockerLayer
\* on the same stream, in quick-exit mode, without pulling anything first
FromStartsQuickExitPull ==
    (entry = "buildDockerImage" /\ IsBuildStep /\ IsFromLine(line'))
        => /\ pc' = "pull" /\ quick_exit' /\ live'
           /\ invocations' = invocations + 1
           /\ closed' = closed

\* C6 (as claimed): a ': FROM ' line starts a quick-exit pull sub-consumption
\* at once, and in it the first event whose status contains 'Image is up to
\* date' or 'Status: Downloaded newer image for' ends the sub-consumption,
\* which pulls nothing after that event.
C6_AnyCompletionPhraseEnds ==
    [][/\ FromStartsQuickExitPull
       /\ (entry = "buildDockerImage" /\ IsPullStep
             /\ HasCompletionPhrase(StatusOf(line')))
            => (pc' = "build" /\ ~live' /\ closed' = closed)]_vars

\* C6 (amended): a ': FROM ' line starts a quick-exit pull sub-consumption at
\* once, and in it the first event whose status contains one of the two
\* phrases and does not contain 'Pulling from ' ends the sub-consumption,
\* which pulls nothing after that event: the stream is left as it is and the
\* next element is pulled by buildDockerImage's own loop.
C6_OperationCompleteEnds ==
    [][/\ FromStartsQuickExitPull
       /\ (entry = "buildDockerImage" /\ IsPullStep
             /\ HasCompletionPhrase(StatusOf(line'))
             /\ ~Contains(StatusOf(line'), PullingFrom))
            => (pc' = "build" /\ ~live' /\ closed' = closed)
       /\ (entry = "buildDockerImage" /\ IsPullStep
             /\ ~(HasCompletionPhrase(StatusOf(line'))
                    /\ ~Contains(StatusOf(line'), PullingFrom)))
            => (pc' = "pull" /\ live')]_vars

\* C6 witness: the build stream gave a ': FROM ' line and then an 'Image is
\* up to date' event, and control is back in buildDockerImage's loop with
\* the stream still open
C6_Witness ==
    /\ entry = "buildDockerImage" /\ pc = "build" /\ ~closed /\ ~live
    /\ pulled = 2 /\ invocations = 1
    /\ Contains(StatusOf(line), ImageUpToDate)

\* C7: without quick-exit mode an OperationComplete event changes nothing of
\* the tracker state and does not stop consumption; the call ends only when
\* the stream is exhausted, and for every finite stream it does end.
C7_NoQuickExitKeepsConsuming ==
    /\ [][(IsPullStep /\ ~quick_exit
             /\ SpecKind(StatusOf(line')) = "OperationComplete")
            => (pc' = "pull" /\ live' /\ UNCHANGED trackerVars)]_vars
    /\ []((entry = "downloadDockerLayer" /\ pc = "done") => closed)
    /\ (entry = "downloadDockerLayer" => <>(pc = "done" /\ ~live))

\* C7 witness: after an OperationComplete event the loop pulled a 'Pulling
\* fs layer' event and recorded its layer
C7_Witness ==
    /\ entry = "downloadDockerLayer" /\ pc = "pull" /\ ~quick_exit
    /\ obs_operation_complete
    /\ StatusOf(line) = <<PullingFsLayer>>
    /\ layers = {LayerOf(line)}

\* C8: selectFromTable and selectFromList on an empty collection end with
\* IndexError, with no table printed, no prompt shown and no value returned.
C8_EmptyInputRaises ==
    (entry \in {"selectFromTable", "selectFromList"}
        /\ Len(data.items) = 0 /\ pc # "call")
      => /\ pc = "done" /\ raised = "IndexError"
         /\ console = <<>> /\ prompt = <<>> /\ result = <<>>

\* C8 witness: selectFromTable([], default="k1") has raised IndexError
C8_Witness ==
    /\ entry = "selectFromTable" /\ Len(data.items) = 0 /\ default = "k1"
    /\ pc = "done" /\ raised = "IndexError"

\* C9: for a non-empty dict selectFromList offers exactly the keys, in
\* order, with the first key as default when none is given, and returns the
\* value mapped to the chosen key; for a non-empty list of strings it offers
\* the list and returns the chosen string.
C9_SelectFromListReturnsMapped ==
    (entry = "selectFromList" /\ Len(data.items) > 0 /\ pc # "call")
      => LET offered == IF data.type = "dict"
                        THEN [i \in 1..Len(data.items) |-> data.items[i][1]]
                        ELSE data.items
         IN  /\ Len(prompt) = 1
             /\ prompt[1].choices = offered
             /\ default = "None" => prompt[1].default = offered[1]
             /\ default # "None" => prompt[1].default = default
             /\ (pc = "done" /\ \E i \in 1..Len(offered) : offered[i] = choice)
                  => /\ raised = ""
                     /\ Len(result) = 1
                     /\ IF data.type = "dict"
                        THEN \E i \in 1..Len(data.items) :
                                data.items[i] = <<choice, result[1]>>
                        ELSE result[1] = choice

\* C9 witness: selectFromList({k1: v1, k2: v2}, default=None), the second key
\* chosen, returned v2
C9_Witness ==
    /\ entry = "selectFromList" /\ pc = "done" /\ default = "None"
    /\ data.type = "dict" /\ Len(data.items) = 2
    /\ data.items[1] = <<"k1", "v1">> /\ data.items[2] = <<"k2", "v2">>
    /\ choice = "k2" /\ result = <<"v2">>

\* C10 (as claimed): for a non-empty list of records selectFromTable returns
\* a record of the list whose key is the chosen key, whatever the prompt
\* yields, also when the caller gives its own default: it never ends on the
\* 'cannot fetch selected object' path.
C10_SelectFromTableReturnsRecord ==
    (entry = "selectFromTable" /\ Len(data.items) > 0 /\ pc = "done")
      => /\ Len(result) = 1
         /\ \E i \in 1..Len(data.items) : data.items[i] = result[1]
         /\ GetKey(result[1]) = choice
         /\ log = <<>>


\* C11: an event whose status matches no vocabulary entry, an event without
\* status included, is only logged (at debug level): the seen set, the
\* completed sets, the task pools, every row (total, completed, description,
\* started flag) and the consumption itself are left as they are.
C11_UnclassifiedOnlyLogged ==
    [][(IsPullStep /\ SpecKind(StatusOf(line')) = "Unclassified")
         => /\ UNCHANGED trackerVars
            /\ pc' = "pull" /\ live'
            /\ log' = << <<"debug", "downloadDockerLayer">> >>]_vars

\* C11 witness: with a layer discovered and a row for it, an event
\* 'Downloading layer' (not the exact status) was pulled and logged
C11_Witness ==
    /\ pc = "pull" /\ StatusOf(line) = <<Downloading, " layer">>
    /\ log = << <<"debug", "downloadDockerLayer">> >>
    /\ layers = {"a"} /\ DOMAIN downloading = {"a"}


\* C12: printTable on a non-empty list of image records prints one table
\* with one row per record; its columns are Image tag, Size, Status, Type at
\* normal verbosity and Id, Image tag, Download size, Disk size, Status, Type
\* at verbose level; every row has as many cells as the table has columns.
C12_ImageTableColumns ==
    (entry \in {"printTable", "selectFromTable"} /\ pc # "call"
        /\ data.type = "ExegolImage" /\ Len(data.items) > 0)
      => /\ Len(console) = 1
         /\ Len(console[1].rows) = Len(data.items)
         /\ verbosity = "normal"
              => console[1].columns = <<"Image tag", "Size", "Status", "Type">>
         /\ verbosity = "verbose"
              => console[1].columns = <<"Id", "Image tag", "Download size",
                                        "Disk size", "Status", "Type">>
         /\ \A i \in 1..Len(console[1].rows) :
               Len(console[1].rows[i]) = Len(console[1].columns)

\* C12 witness: three image records were printed at verbose level
C12_Witness ==
    /\ entry = "printTable" /\ pc = "done" /\ verbosity = "verbose"
    /\ data.type = "ExegolImage" /\ Len(data.items) = 3
    /\ Len(console) = 1 /\ Len(console[1].rows) = 3
    /\ Len(console[1].columns) = 6


\* C13 (as claimed): Finished is terminal for a layer and a phase: once a
\* layer has reported 'Download complete' (or 'Pull complete') in the running
\* invocation, no per-layer download (or extract) task for it exists in any
\* later state, neither in the pool nor as a row, whatever events follow.
C13_FinishedIsTerminal ==
    (Invoked /\ pc = "pull")
      => /\ \A id \in obs_download_finished :
               /\ id \notin DOMAIN downloading
               /\ RowsOf(tasks, Downloading, id) = {}
         /\ \A id \in obs_extract_finished :
               /\ id \notin DOMAIN extracting
               /\ RowsOf(tasks, Extracting, id) = {}


\* C14 (as claimed): the extract aggregate bar does not advance before
\* extraction begins: in every reachable state of an invocation where the
\* extract aggregate row is not started, its completed count is 0.
C14_NotStartedMeansZero ==
    Invoked => (~ExtractRow.started => ExtractRow.completed = 0)


\* the pool of the phase a progress status belongs to
PoolOf(status, down, extr) == IF status = <<Extracting>> THEN extr ELSE down
IsProgress(l) == StatusOf(l) = <<Downloading>> \/ StatusOf(l) = <<Extracting>>
DetailOf(l) == Get(l, "progressDetail", EmptyDict)

\* C15: a 'Downloading' / 'Extracting' event for layer L is processed without
\* error; if the pool of its phase had no task for L exactly one is created,
\* with total the event's progressDetail.total, or 100 when the field or
\* progressDetail is absent; if it had one, no task is created and the total
\* stays as set at creation; in both cases the task's completed count is
\* afterwards progressDetail.current, or 100 when absent.  In every state at
\* most one task exists per layer and phase.
C15_ProgressCreatesOrUpdates ==
    /\ [][(IsPullStep /\ IsProgress(line'))
            => LET id == LayerOf(line')
                   before == PoolOf(StatusOf(line'), downloading, extracting)
                   after == PoolOf(StatusOf(line'), downloading', extracting')
               IN  /\ pc' = "pull" /\ live'
                   /\ id \in DOMAIN after
                   /\ after[id] \in DOMAIN tasks'
                   /\ IF id \notin DOMAIN before
                      THEN /\ after[id] \notin DOMAIN tasks
                           /\ DOMAIN tasks' = DOMAIN tasks \cup {after[id]}
                           /\ DOMAIN after = DOMAIN before \cup {id}
                           /\ tasks'[after[id]].total = Get(DetailOf(line'), "total", 100)
                      ELSE /\ after = before
                           /\ DOMAIN tasks' = DOMAIN tasks
                           /\ tasks'[after[id]].total = tasks[before[id]].total
                   /\ tasks'[after[id]].completed = Get(DetailOf(line'), "current", 100)]_vars
    /\ [](Invoked => \A id \in LayerIds \cup {"None"} :
                       \A phase \in {Downloading, Extracting} :
                          Cardinality(RowsOf(tasks, phase, id)) <= 1)

\* C15 witness: layer a got a task from an event without progressDetail
\* (total 100), and a later event with total 2 and current 1 updated only the
\* completed count
C15_Witness ==
    /\ pc = "pull" /\ IsProgress(line) /\ LayerOf(line) = "a"
    /\ StatusOf(line) = <<Downloading>>
    /\ DetailOf(line) = [current |-> 1, total |-> 2]
    /\ "a" \in DOMAIN downloading
    /\ tasks[downloading["a"]].total = 100
    /\ tasks[downloading["a"]].completed = 1


\* the task ids a pool holds
TasksIn(pool) == {pool[id] : id \in DOMAIN pool}
\* the rows on the terminal: the task table while the display is live,
\* nothing once the transient display has stopped
Displayed == IF live THEN DOMAIN tasks ELSE {}

\* C16: while a downloadDockerLayer invocation runs, the display holds the
\* two aggregate rows, which are never removed, and exactly one row per entry
\* of the download pool and of the extract pool (2 + |downloading| +
\* |extracting| rows); once the invocation has ended, by the end of the
\* stream or by quick exit, no row is displayed, whatever the pools held.
C16_DisplayedRows ==
    /\ (Invoked /\ pc = "pull")
         => /\ task_layers_download # task_layers_extract
            /\ Displayed = {task_layers_download, task_layers_extract}
                              \cup TasksIn(downloading) \cup TasksIn(extracting)
            /\ Cardinality(Displayed) = 2 + Cardinality(DOMAIN downloading)
                                          + Cardinality(DOMAIN extracting)
    /\ (Invoked /\ pc # "pull") => Displayed = {}

\* C16 witness: a quick exit ended a sub-consumption while two layers still
\* had rows
C16_Witness ==
    /\ entry = "buildDockerImage" /\ pc = "build" /\ Invoked
    /\ obs_operation_complete
    /\ Cardinality(DOMAIN downloading) + Cardinality(DOMAIN extracting) = 2
    /\ Cardinality(DOMAIN tasks) = 4
    /\ Displayed = {}


\* C17: the handling of an event by downloadDockerLayer is a function of its
\* status that agrees with the priority table for every status: the step
\* taken is the step of the handler of the kind the table gives and of no
\* other handler; a status matching several entries (one holding both
\* 'Pulling from ' and 'Image is up to date') is handled only as the kind of
\* highest priority.
C17_HandledAsTableSays ==
    [][IsPullStep
         => LET l == line'
                status == StatusOf(l)
                id == LayerOf(l)
                kind == SpecKind(status)
            IN  /\ kind = "LayerDiscovered"
                     => OnPullingFsLayer(id) /\ Continue /\ log' = <<>>
                /\ kind = "SourceNamed"
                     => OnPullingFrom(l, status) /\ Continue /\ log' = <<>>
                /\ kind \in {"DownloadFinished", "ExtractFinished"}
                     => OnComplete(status, id) /\ Continue /\ log' = <<>>
                /\ kind \in {"DownloadProgress", "ExtractProgress"}
                     => OnProgress(l, status, id) /\ Continue /\ log' = <<>>
                /\ kind = "OperationComplete" => OnOperationComplete
                /\ kind = "Unclassified" => OnOther
                /\ (Contains(status, PullingFrom) /\ HasCompletionPhrase(status))
                     => /\ log' # << <<"success", "downloadDockerLayer">> >>
                        /\ pc' = "pull"]_vars

\* C17 witness: in quick-exit mode a status holding both 'Pulling from ' and
\* 'Image is up to date' was handled as the naming of the source only
C17_Witness ==
    /\ pc = "pull" /\ quick_exit /\ pulled > 0
    /\ StatusOf(line) = <<PullingFrom, ImageUpToDate>>
    /\ DownloadRow.description = <<"[bold red]Downloading ", ImageUpToDate, ":", "latest">>
    /\ log = <<>>


\* C18: in buildDockerImage over a stream that yields each element once, a
\* step pulls at most one element, the next one in arrival order, and it is
\* pulled either by the build loop or by the running pull sub-consumption,
\* which processes it in that same step; a sub-consumption returns either at
\* the end of the stream or on the OperationComplete event it has just
\* pulled, and then the build loop goes on with the element that follows;
\* and buildDockerImage terminates on every finite stream.
C18_EachElementOnceInOrder ==
    /\ [][entry = "buildDockerImage"
            => /\ pulled' = pulled \/ pulled' = pulled + 1
               /\ pulled' = pulled + 1
                    => /\ ~closed
                       /\ IsBuildStep # IsPullStep
                       /\ IsPullStep => log' \in {<<>>, << <<"success", "downloadDockerLayer">> >>,
                                                  << <<"debug", "downloadDockerLayer">> >>}
               /\ pulled' = pulled => line' = line
               /\ (pc = "pull" /\ pc' # "pull")
                    => /\ pc' = "build"
                       /\ \/ pulled' = pulled /\ closed'
                          \/ /\ pulled' = pulled + 1 /\ ~closed'
                             /\ SpecKind(StatusOf(line')) = "OperationComplete"]_vars
    /\ (entry = "buildDockerImage") ~> (pc = "done")

\* C18 witness: the build loop pulled the ': FROM ' line, the sub-consumption
\* two events, the second one ending it, and the build loop the fourth
\* element, after which the stream ended
C18_Witness ==
    /\ entry = "buildDockerImage" /\ pc = "done" /\ closed
    /\ pulled = 4 /\ invocations = 1 /\ obs_operation_complete
    /\ layers = {"a"}
    /\ Get(line, "stream", <<>>) = <<"Step", " 2/2", " : RUN x", "\n">>


\* C19: every downloadDockerLayer invocation, each further sub-consumption
\* of one build stream included, begins with an empty seen set, empty
\* completed sets, empty pools, the two aggregate rows alone with total 0 and
\* completed 0, and the extract row not started; and while it runs its sets
\* hold only layers that its own events have named.
C19_FreshStatePerInvocation ==
    /\ [][invocations' = invocations + 1
            => /\ layers' = {} /\ layers_downloaded' = {} /\ layers_extracted' = {}
               /\ DOMAIN downloading' = {} /\ DOMAIN extracting' = {}
               /\ DOMAIN tasks' = {task_layers_download', task_layers_extract'}
               /\ tasks'[task_layers_download'].total = 0
               /\ tasks'[task_layers_download'].completed = 0
               /\ tasks'[task_layers_extract'].total = 0
               /\ tasks'[task_layers_extract'].completed = 0
               /\ ~tasks'[task_layers_extract'].started]_vars
    /\ []((Invoked /\ pc = "pull")
            => /\ layers \subseteq obs_discovered
               /\ layers_downloaded \subseteq obs_download_finished
               /\ layers_extracted \subseteq obs_extract_finished)

\* C19 witness: a second sub-consumption has just begun, after a first one
\* that had recorded a layer and was ended by quick exit
C19_Witness ==
    /\ entry = "buildDockerImage" /\ pc = "pull" /\ invocations = 2
    /\ pulled = 4 /\ IsFromLine(line)
    /\ layers = {} /\ layers_downloaded = {} /\ DOMAIN tasks = {0, 1}


\* C20: while a pull sub-consumption started by buildDockerImage runs, a
\* build line it pulls (a 'Step' line, a milestone line, another ': FROM '
\* line) is handled as an unclassified pull event only: it is logged at
\* debug level by downloadDockerLayer, not as a build line, it starts no
\* further sub-consumption and it leaves the tracker alone; and as long as
\* the sub-consumption has pulled no OperationComplete event the build loop
\* pulls nothing: the call returns only at the end of the stream.
C20_SubConsumptionAbsorbsBuildLines ==
    /\ [][(entry = "buildDockerImage" /\ IsPullStep /\ line' \in BuildLines)
            => /\ log' = << <<"debug", "downloadDockerLayer">> >>
               /\ invocations' = invocations
               /\ pc' = "pull" /\ live'
               /\ UNCHANGED trackerVars]_vars
    /\ [][(entry = "buildDockerImage" /\ Invoked /\ ~obs_operation_complete)
            => ~IsBuildStep]_vars
    /\ []((entry = "buildDockerImage" /\ Invoked /\ ~obs_operation_complete
              /\ pc # "pull") => closed)

\* C20 witness: a sub-consumption without OperationComplete event recorded
\* a layer, pulled a second ': FROM ' line as its last element and ended
\* with the stream, and so did buildDockerImage
C20_Witness ==
    /\ entry = "buildDockerImage" /\ pc = "done" /\ closed
    /\ invocations = 1 /\ ~obs_operation_complete
    /\ pulled = 4 /\ IsFromLine(line)
    /\ layers = {"a"}


\* the rows of the tasks a pool holds
RowsIn(pool, ts) == [id \in DOMAIN pool |-> ts[pool[id]]]

\* C21: the two phases are tracked independently.  A 'Download complete' or
\* 'Downloading' event leaves the extract pool and its rows, the extract
\* completed set, the extract aggregate completed count and the extract
\* started flag unchanged; a 'Pull complete' or 'Extracting' event leaves the
\* download pool and its rows, the download completed set and the download
\* aggregate completed count unchanged; none of the four changes the seen
\* set or the aggregate totals.
C21_PhasesIndependent ==
    [][(IsPullStep /\ (IsFinish(line') \/ IsProgress(line')))
         => /\ layers' = layers
            /\ DownloadRow'.total = DownloadRow.total
            /\ ExtractRow'.total = ExtractRow.total
            /\ StatusOf(line') \in {<<DownloadComplete>>, <<Downloading>>}
                 => /\ extracting' = extracting
                    /\ RowsIn(extracting', tasks') = RowsIn(extracting, tasks)
                    /\ layers_extracted' = layers_extracted
                    /\ ExtractRow'.completed = ExtractRow.completed
                    /\ ExtractRow'.started = ExtractRow.started
            /\ StatusOf(line') \in {<<PullComplete>>, <<Extracting>>}
                 => /\ downloading' = downloading
                    /\ RowsIn(downloading', tasks') = RowsIn(downloading, tasks)
                    /\ layers_downloaded' = layers_downloaded
                    /\ DownloadRow'.completed = DownloadRow.completed]_vars

\* C21 witness: 'Pull complete' for layer a was processed while a had a
\* download row and an extract row; the download row is still there
C21_Witness ==
    /\ pc = "pull" /\ StatusOf(line) = <<PullComplete>> /\ LayerOf(line) = "a"
    /\ "a" \in DOMAIN downloading /\ "a" \notin DOMAIN extracting
    /\ RowsOf(tasks, Downloading, "a") # {}
    /\ task_index = 4
    /\ layers_extracted = {"a"} /\ layers_downloaded = {}

=============================================================================
